---------------------------- MODULE Spec2Model ----------------------------
(***************************************************************************)
(* Model of kantts/datasets/dataset.py: the Padder, the vocoder,           *)
(* acoustic-model and masked-text dataset adapters, their collators, the   *)
(* masking actor and the train/valid split generators.                     *)
(*                                                                         *)
(* numpy arrays are sequences (1-based here, 0-based in the source);       *)
(* random draws are inputs of the actions, chosen with \E.                 *)
(***************************************************************************)
EXTENDS Integers, Sequences, FiniteSets, TLC

\* ------------------------------------------------------------------ bounds
MaxSym == 3        \* longest duration array handed to the Padder
MaxDur == 2        \* largest single duration entry
MaxInLen == 4      \* largest max_in_len
MaxOutLen == 5     \* largest max_out_len
MaxBatch == 2      \* largest batch handed to a collator
MaxTail == 1       \* most mel frames beyond sum(duration) in an example
MaxR == 3          \* largest outputs_per_step
MaxChan == 2       \* largest mel channel count
NumUtt == 2        \* lines of a dataset manifest
MaxWav == 4        \* longest raw waveform, in samples
MaxMel == 2        \* longest mel, in frames
MaxCropMel == 4    \* longest mel handed to Voc_Dataset.collate_fn, in frames
MaxHop == 2        \* largest hop_length
MaxFft == 1        \* largest n_fft
MaxSteps == 3      \* largest batch_max_steps
MaxLing == 2       \* longest symbol sequence of a dataset line
MaxDirs == 2       \* (manifest, data directory) pairs of an AM_Dataset
MaxSeqLen == 3     \* longest symbol stream handed to the masking actor
MaxCat == 2        \* largest nb_symbol_category
NumWorkers == 2    \* worker processes sharing one dataset
MaxLines == 3      \* longest raw manifest given to gen_metafile
MaxP == 5          \* largest phoneme_count of a prior
MaxM == 4          \* largest mel_count of a prior
MaxScaling == 3    \* largest (integer) scaling of a prior
MaxPadRows == 2    \* most rows of an array given to _pad1D / _pad2D
MaxPadCols == 2    \* most channels of an array given to _pad2D

\* ----------------------------------------------------------------- helpers
RECURSIVE SeqSum(_)
SeqSum(s) == IF s = <<>> THEN 0 ELSE Head(s) + SeqSum(Tail(s))

\* [v] * k of Python: k copies of v, the empty list when k <= 0
Repeat(v, k) == [i \in 1..k |-> v]

\* sequences over S of length lo..hi
SeqsOf(S, lo, hi) == UNION {[1..n -> S] : n \in lo..hi}

\* np.insert(arr, idx, values, axis=0) for 0 <= idx <= len(arr)
np_insert(arr, idx, values) ==
    SubSeq(arr, 1, idx) \o values \o SubSeq(arr, idx + 1, Len(arr))

\* ------------------------------------------------------------------ Padder
VARIABLES duration, max_in_len, max_out_len, pad_out, pad_pc

padVars == <<duration, max_in_len, max_out_len, pad_out, pad_pc>>

\* Padder._pad_durations
_pad_durations(dur, maxIn, maxOut) ==
    LET framenum == SeqSum(dur)
        symbolnum == Len(dur)
    IN IF framenum < maxOut
       THEN LET padframenum == maxOut - framenum
                d1 == np_insert(dur, symbolnum, <<padframenum>>)
            IN np_insert(d1, symbolnum + 1, Repeat(0, maxIn - symbolnum - 1))
       ELSE IF symbolnum < maxIn
            THEN np_insert(dur, symbolnum, Repeat(0, maxIn - symbolnum))
            ELSE dur

\* _round_up rounding down to the multiple below
_round_up_Down(x, multiple) == x - (x % multiple)

\* Padder._round_up
_round_up(x, multiple) ==
    LET remainder == x % multiple
    IN IF remainder = 0 THEN x ELSE x + multiple - remainder

PadInit ==
    /\ duration \in SeqsOf(0..MaxDur, 0, MaxSym)
    /\ max_in_len \in Len(duration)..MaxInLen
    /\ max_out_len \in 0..MaxOutLen
    /\ pad_out = <<>>
    /\ pad_pc = "start"

PadIdle ==
    /\ duration = <<>>
    /\ max_in_len = 0
    /\ max_out_len = 0
    /\ pad_out = <<>>
    /\ pad_pc = "off"

\* one call of Padder._pad_durations on the drawn inputs
PadDurations ==
    /\ pad_pc = "start"
    /\ pad_out' = _pad_durations(duration, max_in_len, max_out_len)
    /\ pad_pc' = "done"
    /\ UNCHANGED <<duration, max_in_len, max_out_len>>

\* ------------------------------------------- AM_Dataset.collate_fn
\* batch: the list of __getitem__ tuples, each kept as the lengths of its
\* arrays (ling_len = len(x[0][0]), mel_len = len(x[1])), its duration
\* array x[2] (has_dur = FALSE for None) and the shape of its prior x[5].
\* am_with_duration is self.with_duration of the dataset the collator
\* belongs to.
VARIABLES batch, am_r, am_with_duration, n_chan, data_dict, col_pc

colVars == <<batch, am_r, n_chan, data_dict, col_pc>>

SetMax(S) == CHOOSE m \in S : \A x \in S : x <= m

\* np.stack of 1-D arrays: the arrays when their lengths agree
StackOk(arrs) == \A i, j \in 1..Len(arrs) : Len(arrs[i]) = Len(arrs[j])

\* Padder._pad1D / Padder._pad2D on the row count: np.pad rejects a
\* negative pad width
PadLenOk(n, length) == length - n >= 0

\* Padder._prepare_durations: the padded arrays, before np.stack
_prepare_durations(durations, maxIn, maxOut) ==
    [i \in 1..Len(durations) |-> _pad_durations(durations[i], maxIn, maxOut)]

NoDict == [raised |-> "start"]

\* AM_Dataset.collate_fn
collate_fn(b, r, withDur, chan) ==
    LET B == Len(b)
        max_input_length == SetMax({b[i].ling_len : i \in 1..B})
        valid_input_lengths == [i \in 1..B |-> b[i].ling_len - 1]
        valid_output_lengths == [i \in 1..B |-> b[i].mel_len]
        max_output_length == SetMax({valid_output_lengths[i] : i \in 1..B})
        max_output_round_length == _round_up(max_output_length, r)
        durs == _prepare_durations([i \in 1..B |-> b[i].dur],
                                   max_input_length, max_output_round_length)
        feats_padding_length ==
            IF withDur THEN max_input_length ELSE max_output_round_length
    IN IF withDur /\ \E i \in 1..B : ~b[i].has_dur
       THEN [raised |-> "AttributeError"]
       ELSE IF withDur /\ ~StackOk(durs)
       THEN [raised |-> "ValueError"]
       ELSE IF \E i \in 1..B : ~PadLenOk(b[i].f0_len, feats_padding_length)
       THEN [raised |-> "ValueError"]
       ELSE IF ~withDur /\ \E i \in 1..B : ~b[i].has_prior
       THEN [raised |-> "AttributeError"]
       ELSE [raised |-> "None",
             input_lings |-> <<B, max_input_length, 4>>,
             input_emotions |-> <<B, max_input_length>>,
             input_speakers |-> <<B, max_input_length>>,
             valid_input_lengths |-> valid_input_lengths,
             valid_output_lengths |-> valid_output_lengths,
             mel_targets |-> <<B, max_output_round_length, chan>>,
             has_durations |-> withDur,
             durations |-> IF withDur THEN durs ELSE <<>>,
             pitch_contours |-> <<B, feats_padding_length>>,
             energy_contours |-> <<B, feats_padding_length>>,
             has_attn_priors |-> ~withDur,
             attn_priors |-> IF withDur THEN <<>>
                             ELSE <<B, max_output_round_length,
                                    max_input_length>>]

\* shape of a stacked 2-D tensor kept as a sequence of equal-length rows
Shape2(rows) == <<Len(rows), Len(rows[1])>>

\* examples as AM_Dataset.__getitem__ returns them from one data directory:
\* a duration entry per symbol and no prior, or no duration and an
\* (M, P) prior
ExamplesWithDur ==
    {[ling_len |-> Len(d), mel_len |-> SeqSum(d) + t, has_dur |-> TRUE,
      dur |-> d, f0_len |-> Len(d), has_prior |-> FALSE, prior |-> <<>>] :
        d \in SeqsOf(1..MaxDur, 1, MaxSym), t \in 0..MaxTail}

ExamplesWithPrior ==
    {[ling_len |-> n, mel_len |-> m, has_dur |-> FALSE, dur |-> <<>>,
      f0_len |-> m, has_prior |-> TRUE, prior |-> <<m, n>>] :
        n \in 1..MaxSym, m \in 1..(MaxSym * MaxDur)}

ColInit ==
    /\ am_with_duration \in BOOLEAN
    /\ batch \in SeqsOf(IF am_with_duration THEN ExamplesWithDur
                        ELSE ExamplesWithPrior, 1, MaxBatch)
    /\ am_r \in 1..MaxR
    /\ n_chan \in 1..MaxChan
    /\ data_dict = NoDict
    /\ col_pc = "start"

ColIdle ==
    /\ batch = <<>>
    /\ am_r = 1
    /\ n_chan = 1
    /\ data_dict = NoDict
    /\ col_pc = "off"

\* one call of AM_Dataset.collate_fn on the drawn batch
AMCollate ==
    /\ col_pc = "start"
    /\ data_dict' = collate_fn(batch, am_r, am_with_duration, n_chan)
    /\ col_pc' = "done"
    /\ UNCHANGED <<batch, am_r, am_with_duration, n_chan>>

\* ------------------------------------------------------------ Voc_Dataset
\* voc_meta[idx]: the files of one manifest line, kept as the lengths of the
\* arrays they decode to; sample k of line idx is the pair <<idx, k>>.
\* voc_caches[idx]: () or the cached (wav_data, mel_data).
\* voc_get: the outcome of the last __getitem__ call.
VARIABLES voc_config, voc_meta, voc_caches, voc_get

vocVars == <<voc_config, voc_meta, voc_caches, voc_get>>

Min(a, b) == IF a < b THEN a ELSE b

\* Voc_Dataset.__init__: batch_max_frames, start_offset, end_offset
aux_context_window == 0
batch_max_frames(cfg) == cfg.batch_max_steps \div cfg.hop_length
start_offset == aux_context_window
end_offset(cfg) == 0 - (batch_max_frames(cfg) + aux_context_window)

\* librosa.core.load(wav_file) / np.load(mel_file) of manifest line idx
WavFile(idx, rec) == [k \in 1..rec.wav_len |-> <<idx, k>>]
MelFile(idx, rec) == [k \in 1..rec.mel_len |-> <<idx, k>>]

\* np.pad(x, (0, n), mode="reflect") for a non-empty x: the samples mirrored
\* about the last one (without repeating it), then about the first, ...
ReflectPad(x, n) ==
    LET L == Len(x)
        period == 2 * (L - 1)
        At(p) == IF p < L THEN p
                 ELSE IF L = 1 THEN 0
                 ELSE LET q == p % period
                      IN IF q < L THEN q ELSE period - q
    IN [i \in 1..(L + n) |-> x[At(i - 1) + 1]]

\* VocDecode without the length assertion
VocDecode_NoAssert(cfg, idx, rec) ==
    LET wav_data == WavFile(idx, rec)
        mel_data == [frames |-> MelFile(idx, rec),
                     extra_chan |-> IF cfg.nsf_enable THEN 2 ELSE 0]
        want == Len(mel_data.frames) * cfg.hop_length
    IN IF rec.paths # 4 \/ Len(wav_data) = 0
       THEN [raised |-> "ValueError", item |-> <<>>]
       ELSE LET padded == ReflectPad(wav_data, cfg.n_fft)
                cut == SubSeq(padded, 1, Min(Len(padded), want))
            IN [raised |-> "None", item |-> <<cut, mel_data>>]

\* the body of Voc_Dataset.__getitem__ after the cache check: unpack the
\* item into four paths, load, append the frame-level f0 / uv channels,
\* pad, truncate, assert
VocDecode(cfg, idx, rec) ==
    LET wav_data == WavFile(idx, rec)
        mel_data == [frames |-> MelFile(idx, rec),
                     extra_chan |-> IF cfg.nsf_enable THEN 2 ELSE 0]
        want == Len(mel_data.frames) * cfg.hop_length
    IN IF rec.paths # 4 \/ Len(wav_data) = 0
       THEN [raised |-> "ValueError", item |-> <<>>]
       ELSE LET padded == ReflectPad(wav_data, cfg.n_fft)
                cut == SubSeq(padded, 1, Min(Len(padded), want))
            IN IF want = Len(cut)
               THEN [raised |-> "None", item |-> <<cut, mel_data>>]
               ELSE [raised |-> "AssertionError", item |-> <<>>]

\* CacheWrite storing under the next index
CacheWrite_WrongSlot(caches, idx, value) ==
    [caches EXCEPT ![(idx % Len(caches)) + 1] = value]

\* CacheWrite extending the tuple already in the slot
CacheWrite_Extend(caches, idx, value) ==
    [caches EXCEPT ![idx] = @ \o value]

\* self.caches[idx] = value on the shared list
CacheWrite(caches, idx, value) == [caches EXCEPT ![idx] = value]

VocConfigs ==
    [n_fft : 1..MaxFft, hop_length : 1..MaxHop,
     batch_max_steps : 1..MaxSteps, allow_cache : BOOLEAN,
     nsf_enable : BOOLEAN]

\* a manifest line's item: the 4-tuple of paths load_meta builds, with the
\* lengths of the wav and mel arrays its files hold
VocRecords == [wav_len : 0..MaxWav, mel_len : 1..MaxMel, paths : {4}]

\* an item of load_meta_from_dir: the 2-tuple (wav_file, mel_file)
DirItem == [wav_len |-> 1, mel_len |-> 1, paths |-> 2]

\* hit: the call was served from the cache
NoGet == [idx |-> 0, raised |-> "start", item |-> <<>>, hit |-> FALSE]

\* Voc_Dataset.__init__: the manifest is read and every cache slot is ()
VocInit ==
    /\ voc_config \in VocConfigs
    /\ voc_meta \in [1..NumUtt -> VocRecords]
    /\ voc_caches = [i \in 1..NumUtt |-> <<>>]
    /\ voc_get = NoGet

VocIdle ==
    /\ voc_config = [n_fft |-> 1, hop_length |-> 1, batch_max_steps |-> 1,
                     allow_cache |-> FALSE, nsf_enable |-> FALSE]
    /\ voc_meta = <<>>
    /\ voc_caches = <<>>
    /\ voc_get = NoGet

\* Voc_Dataset.__getitem__(idx)
VocGetItem(idx) ==
    /\ idx \in 1..Len(voc_meta)
    /\ IF voc_config.allow_cache /\ Len(voc_caches[idx]) # 0
       THEN /\ voc_get' = [idx |-> idx, raised |-> "None",
                           item |-> voc_caches[idx], hit |-> TRUE]
            /\ UNCHANGED voc_caches
       ELSE LET d == VocDecode(voc_config, idx, voc_meta[idx])
            IN /\ voc_get' = [idx |-> idx, raised |-> d.raised,
                              item |-> d.item, hit |-> FALSE]
               /\ voc_caches' =
                    IF d.raised = "None" /\ voc_config.allow_cache
                    THEN CacheWrite(voc_caches, idx, d.item)
                    ELSE voc_caches
    /\ UNCHANGED <<voc_config, voc_meta>>

\* ------------------------------------------------------------- AM_Dataset
\* am_meta[idx]: one manifest line: the arrays its files decode to (rec) and
\* whether load_meta gave it a dur_file (FALSE for None).
\* am_caches[idx]: () or the cached 6-tuple.  am_get: the last __getitem__.
VARIABLES am_config, am_meta, am_caches, am_get

amVars == <<am_config, am_meta, am_with_duration, am_caches, am_get>>

RECURSIVE Concat(_)
Concat(ss) == IF ss = <<>> THEN <<>> ELSE Head(ss) \o Concat(Tail(ss))

\* AM_Dataset.load_meta(metafile, data_dir): one item per line
load_meta(dir) ==
    [k \in 1..Len(dir.lines) |->
        [rec |-> dir.lines[k], dur_file |-> dir.has_dur_dir]]

\* AM_Dataset.__init__: self.meta after the loop over zip(metafile, root_dir)
AMBuildMeta(dirs) == Concat([j \in 1..Len(dirs) |-> load_meta(dirs[j])])

\* self.with_duration: True at first, then set by every load_meta call
AMWithDuration(dirs) ==
    IF dirs = <<>> THEN TRUE ELSE dirs[Len(dirs)].has_dur_dir

\* beta_binomial_prior_distribution(P, M): the (M, P) matrix, by its shape
PriorShape(P, M) == <<M, P>>

\* the body of AM_Dataset.__getitem__ after the cache check; arrays are
\* kept as the line they were decoded from and their length, the duration
\* array by its content
AMDecode(cfg, withDur, idx, it) ==
    LET ling_data == [src |-> idx, len |-> it.rec.ling_len]
        mel_data == [src |-> idx, len |-> it.rec.mel_len,
                     extra_chan |-> IF cfg.nsf_enable THEN 2 ELSE 0]
        dur_data == IF it.dur_file
                    THEN [none |-> FALSE, arr |-> it.rec.dur]
                    ELSE [none |-> TRUE, arr |-> <<>>]
        f0_data == [src |-> idx, len |-> it.rec.f0_len]
        energy_data == [src |-> idx, len |-> it.rec.f0_len]
        attn_prior == IF withDur
                      THEN [none |-> TRUE, shape |-> <<>>]
                      ELSE [none |-> FALSE,
                            shape |-> PriorShape(ling_data.len, mel_data.len)]
    IN <<ling_data, mel_data, dur_data, f0_data, energy_data, attn_prior>>

\* the files of one line under a directory with / without duration/
AMRecords(hasDur) ==
    IF hasDur
    THEN {[ling_len |-> n, mel_len |-> n, dur |-> [i \in 1..n |-> 1],
           f0_len |-> n] : n \in 1..MaxLing}
    ELSE {[ling_len |-> n, mel_len |-> n + t, dur |-> <<>>,
           f0_len |-> n + t] : n \in 1..MaxLing, t \in 0..MaxTail}

\* the (manifest, data directory) pairs of a dataset of NumUtt lines:
\* flags[j] says whether directory j has duration/, line k is in the
\* manifest of directory dirOf[k] and decodes to recs[k]
AMDirs(flags, dirOf, recs) ==
    [j \in 1..Len(flags) |->
        LET ks == SelectSeq([k \in 1..NumUtt |-> k],
                            LAMBDA k : dirOf[k] = j)
        IN [has_dur_dir |-> flags[j],
            lines |-> [i \in 1..Len(ks) |-> recs[ks[i]]]]]

AMConfigs == [nsf_enable : BOOLEAN, allow_cache : BOOLEAN]

\* AM_Dataset.__init__
AMInit ==
    /\ am_config \in AMConfigs
    /\ \E nd \in 1..MaxDirs :
       \E flags \in [1..nd -> BOOLEAN], dirOf \in [1..NumUtt -> 1..nd] :
          /\ \A k \in 1..(NumUtt - 1) : dirOf[k] <= dirOf[k + 1]
          /\ \E recs \in [1..NumUtt -> AMRecords(TRUE) \cup AMRecords(FALSE)] :
                /\ \A k \in 1..NumUtt :
                      recs[k] \in AMRecords(flags[dirOf[k]])
                /\ LET dirs == AMDirs(flags, dirOf, recs)
                   IN /\ am_meta = AMBuildMeta(dirs)
                      /\ am_with_duration = AMWithDuration(dirs)
    /\ am_caches = [i \in 1..Len(am_meta) |-> <<>>]
    /\ am_get = NoGet

AMIdleRest ==
    /\ am_config = [nsf_enable |-> FALSE, allow_cache |-> FALSE]
    /\ am_meta = <<>>
    /\ am_caches = <<>>
    /\ am_get = NoGet

AMIdle == am_with_duration = TRUE /\ AMIdleRest

\* a __getitem__ tuple x as collate_fn reads it: len(x[0][0]), len(x[1]),
\* x[2], len(x[3]) and x[5]
Example(item) ==
    [ling_len |-> item[1].len, mel_len |-> item[2].len,
     has_dur |-> ~item[3].none, dur |-> item[3].arr,
     f0_len |-> item[4].len,
     has_prior |-> ~item[6].none, prior |-> item[6].shape]

\* the examples __getitem__ returns from a dataset of one data directory
\* with (h) or without duration/
ExamplesOfDir(h) ==
    {Example(AMDecode([nsf_enable |-> FALSE, allow_cache |-> FALSE], h, 1,
                      [rec |-> r, dur_file |-> h])) : r \in AMRecords(h)}

\* a batch the DataLoader hands to collate_fn of a one-directory dataset
ColLenInit ==
    /\ am_with_duration \in BOOLEAN
    /\ batch \in SeqsOf(ExamplesOfDir(am_with_duration), 1, MaxBatch)
    /\ am_r \in 1..MaxR
    /\ n_chan \in 1..MaxChan
    /\ data_dict = NoDict
    /\ col_pc = "start"

\* AM_Dataset.__getitem__(idx)
AMGetItem(idx) ==
    /\ idx \in 1..Len(am_meta)
    /\ IF am_config.allow_cache /\ Len(am_caches[idx]) # 0
       THEN /\ am_get' = [idx |-> idx, raised |-> "None",
                          item |-> am_caches[idx], hit |-> TRUE]
            /\ UNCHANGED am_caches
       ELSE LET d == AMDecode(am_config, am_with_duration, idx, am_meta[idx])
            IN /\ am_get' = [idx |-> idx, raised |-> "None", item |-> d,
                             hit |-> FALSE]
               /\ am_caches' = IF am_config.allow_cache
                               THEN CacheWrite(am_caches, idx, d)
                               ELSE am_caches
    /\ UNCHANGED <<am_config, am_meta, am_with_duration>>

\* ------------------------------------------------ Voc_Dataset.collate_fn
\* crop_batch: the (wav_data, mel_data) pairs handed to collate_fn;
\* start_frames: the frames np.random.randint drew; voc_collated: the result.
VARIABLES crop_batch, start_frames, voc_collated, crop_pc

cropVars == <<crop_batch, start_frames, voc_collated, crop_pc>>

\* np.random.randint(low, high): the values it can return (none: ValueError)
randint(low, high) == low..(high - 1)

\* x[start:end] for 0 <= start
PySlice(x, start, end) == SubSeq(x, start + 1, Min(end, Len(x)))

\* np.asarray + torch.tensor on a list of crops needs equal lengths
Rectangular(crops) ==
    \A i, j \in 1..Len(crops) : Len(crops[i]) = Len(crops[j])

\* VocCollateFn cropping every mel from frame 0 whatever start frame was drawn
VocCollateFn_MelFromZero(cfg, b, sf) ==
    LET B == Len(b)
        wav_data == [i \in 1..B |-> b[i][1]]
        mel_data == [i \in 1..B |-> b[i][2].frames]
        wav_start == [i \in 1..B |-> sf[i] * cfg.hop_length]
        wav_end == [i \in 1..B |-> wav_start[i] + cfg.batch_max_steps]
        mel_start == [i \in 1..B |-> 0 - aux_context_window]
        mel_end == [i \in 1..B |->
                       mel_start[i] + batch_max_frames(cfg)
                                    + aux_context_window]
        wav_batch == [i \in 1..B |->
                         PySlice(wav_data[i], wav_start[i], wav_end[i])]
        mel_batch == [i \in 1..B |->
                         PySlice(mel_data[i], mel_start[i], mel_end[i])]
    IN IF Rectangular(wav_batch) /\ Rectangular(mel_batch)
       THEN [raised |-> "None", wav_batch |-> wav_batch,
             mel_batch |-> mel_batch]
       ELSE [raised |-> "ValueError", wav_batch |-> <<>>, mel_batch |-> <<>>]

\* Voc_Dataset.collate_fn after the start frames sf are drawn
VocCollateFn(cfg, b, sf) ==
    LET B == Len(b)
        wav_data == [i \in 1..B |-> b[i][1]]
        mel_data == [i \in 1..B |-> b[i][2].frames]
        wav_start == [i \in 1..B |-> sf[i] * cfg.hop_length]
        wav_end == [i \in 1..B |-> wav_start[i] + cfg.batch_max_steps]
        mel_start == [i \in 1..B |-> sf[i] - aux_context_window]
        mel_end == [i \in 1..B |->
                       mel_start[i] + batch_max_frames(cfg)
                                    + aux_context_window]
        wav_batch == [i \in 1..B |->
                         PySlice(wav_data[i], wav_start[i], wav_end[i])]
        mel_batch == [i \in 1..B |->
                         PySlice(mel_data[i], mel_start[i], mel_end[i])]
    IN IF Rectangular(wav_batch) /\ Rectangular(mel_batch)
       THEN [raised |-> "None", wav_batch |-> wav_batch,
             mel_batch |-> mel_batch]
       ELSE [raised |-> "ValueError", wav_batch |-> <<>>, mel_batch |-> <<>>]

\* the draw range of example i of the batch
StartRange(cfg, b, i) ==
    randint(start_offset, Len(b[i][2].frames) + end_offset(cfg))

NoCollated == [raised |-> "start", wav_batch |-> <<>>, mel_batch |-> <<>>]

\* the manifest lines behind a batch: mels of up to MaxCropMel frames, with
\* a raw waveform that covers the longest mel exactly or falls short of it
\* by at most the n_fft samples __getitem__ pads
CropRecords ==
    [wav_len : (MaxCropMel * MaxHop - MaxFft)..(MaxCropMel * MaxHop),
     mel_len : 1..MaxCropMel, paths : {4}]

\* the pairs __getitem__ returns for the lines of some manifest, in the
\* order a sampler hands them over
CropInit ==
    /\ voc_config \in {c \in VocConfigs : ~c.allow_cache}
    /\ \E n \in 1..MaxBatch : \E recs \in [1..n -> CropRecords] :
          /\ \A i \in 1..n :
                VocDecode(voc_config, i, recs[i]).raised = "None"
          /\ crop_batch = [i \in 1..n |->
                              VocDecode(voc_config, i, recs[i]).item]
    /\ start_frames = <<>>
    /\ voc_collated = NoCollated
    /\ crop_pc = "start"
    /\ voc_meta = <<>>
    /\ voc_caches = <<>>
    /\ voc_get = NoGet

CropIdle ==
    /\ crop_batch = <<>>
    /\ start_frames = <<>>
    /\ voc_collated = NoCollated
    /\ crop_pc = "off"

\* Voc_Dataset.collate_fn(batch)
VocCollate ==
    /\ crop_pc = "start"
    /\ crop_pc' = "done"
    /\ LET B == Len(crop_batch)
       IN IF \E i \in 1..B : StartRange(voc_config, crop_batch, i) = {}
          THEN /\ start_frames' = <<>>
               /\ voc_collated' = [raised |-> "ValueError",
                                   wav_batch |-> <<>>, mel_batch |-> <<>>]
          ELSE \E sf \in [1..B -> 0..MaxCropMel] :
                  /\ \A i \in 1..B :
                        sf[i] \in StartRange(voc_config, crop_batch, i)
                  /\ start_frames' = sf
                  /\ voc_collated' = VocCollateFn(voc_config, crop_batch, sf)
    /\ UNCHANGED <<crop_batch, vocVars>>

\* ------------------------------------------------------------ MaskingActor
\* mk_seq, mk_cat, mk_mask_symbol_id, mk_mask, mk_p2, mk_p3: the arguments
\* of one _input_bert_masking call (probabilities as num / den); mk_rand,
\* mk_tok: what np.random.shuffle and random.randint produced in it;
\* mk_out: the returned array.
VARIABLES mk_seq, mk_cat, mk_mask_symbol_id, mk_mask, mk_p2, mk_p3,
          mk_rand, mk_tok, mk_out, mk_pc

mkVars == <<mk_seq, mk_cat, mk_mask_symbol_id, mk_mask, mk_p2, mk_p3,
            mk_rand, mk_tok, mk_out, mk_pc>>

\* int(math.floor(n * p)) for p = num / den
FloorMul(n, p) == (n * p.num) \div p.den

\* np.where(mask == 1)[0]: the masked positions, ascending
WhereOne(mask) ==
    SelectSeq([i \in 1..Len(mask) |-> i], LAMBDA i : mask[i] = 1)

\* the orders np.random.shuffle can leave np.arange(n) in
Shuffles(n) == {f \in [1..n -> 1..n] : \A i, j \in 1..n : f[i] = f[j] => i = j}

\* the values random.randint(0, nb_symbol_category - 1) can return
RandTokens(nb) == 0..(nb - 1)

SeqRange(q) == {q[i] : i \in 1..Len(q)}

\* MaskingActor._input_bert_masking, given the shuffle and the token drawn
_input_bert_masking(sequence_array, mask_symbol_id, mask, p2, p3, rand, tok) ==
    LET mask_id == WhereOne(mask)
        mask_len == Len(mask_id)
        n2 == FloorMul(mask_len, p2)
        n3 == FloorMul(mask_len, p3)
        mask_id_p2 == [i \in 1..Min(n2, mask_len) |-> mask_id[rand[i]]]
        mask_id_p3 == [i \in 1..(Min(n2 + n3, mask_len) - Min(n2, mask_len))
                          |-> mask_id[rand[Min(n2, mask_len) + i]]]
        after_p2 == [i \in 1..Len(sequence_array) |->
                        IF i \in SeqRange(mask_id_p2) THEN mask_symbol_id
                        ELSE sequence_array[i]]
    IN [i \in 1..Len(sequence_array) |->
           IF i \in SeqRange(mask_id_p3) THEN tok ELSE after_p2[i]]

\* len(mask_id_p3): random.randint is called only when it is positive
P3Len(mask, p2, p3) ==
    LET mask_len == Len(WhereOne(mask))
    IN Min(FloorMul(mask_len, p2) + FloorMul(mask_len, p3), mask_len)
          - Min(FloorMul(mask_len, p2), mask_len)

\* the tokens a call can draw: none (kept as 0) when the slice is empty
TokenDraws(nb, mask, p2, p3) ==
    IF P3Len(mask, p2, p3) > 0 THEN RandTokens(nb) ELSE {0}

\* (p2, p3) pairs with p2 + p3 <= 1; (0.8, 0.1) is what bert_masking passes
MaskRatios ==
    {<<[num |-> 8, den |-> 10], [num |-> 1, den |-> 10]>>,
     <<[num |-> 1, den |-> 2], [num |-> 1, den |-> 2]>>,
     <<[num |-> 1, den |-> 4], [num |-> 3, den |-> 4]>>,
     <<[num |-> 0, den |-> 1], [num |-> 1, den |-> 1]>>}

MaskInit ==
    /\ mk_cat \in 1..MaxCat
    /\ mk_mask_symbol_id \in 0..(mk_cat - 1)
    /\ mk_seq \in SeqsOf(0..(mk_cat - 1), 0, MaxSeqLen)
    /\ mk_mask \in [1..Len(mk_seq) -> {0, 1}]
    /\ \E r \in MaskRatios : mk_p2 = r[1] /\ mk_p3 = r[2]
    /\ mk_rand = <<>>
    /\ mk_tok = 0
    /\ mk_out = <<>>
    /\ mk_pc = "start"

MaskIdle ==
    /\ mk_cat = 1
    /\ mk_mask_symbol_id = 0
    /\ mk_seq = <<>>
    /\ mk_mask = <<>>
    /\ mk_p2 = [num |-> 0, den |-> 1]
    /\ mk_p3 = [num |-> 0, den |-> 1]
    /\ mk_rand = <<>>
    /\ mk_tok = 0
    /\ mk_out = <<>>
    /\ mk_pc = "off"

\* one call of MaskingActor._input_bert_masking
InputBertMasking ==
    /\ mk_pc = "start"
    /\ \E rand \in Shuffles(Len(WhereOne(mk_mask))),
          tok \in TokenDraws(mk_cat, mk_mask, mk_p2, mk_p3) :
          /\ mk_rand' = rand
          /\ mk_tok' = tok
          /\ mk_out' = _input_bert_masking(mk_seq, mk_mask_symbol_id, mk_mask,
                                           mk_p2, mk_p3, rand, tok)
    /\ mk_pc' = "done"
    /\ UNCHANGED <<mk_seq, mk_cat, mk_mask_symbol_id, mk_mask, mk_p2, mk_p3>>

\* ------------------------------------------------------- BERT_Text_Dataset
\* bert_meta[idx]: the length of the symbol streams line idx encodes to;
\* bert_caches[idx]: () or the cached 1-tuple; bert_get: the outcome of the
\* last __getitem__ call that returned (remasked: the call that returned
\* before it was for the same index and returned another mask).
\* self.caches is a Manager list shared by the DataLoader workers, and each
\* len(self.caches[idx]), self.caches[idx][0] and self.caches[idx] = ... is
\* one request to the manager process: worker w is idle, or has had its
\* check of the slot of b_idx[w] answered and is on the hit branch ("hit")
\* or on the miss branch ("miss") of __getitem__.
VARIABLES bert_config, bert_meta, bert_caches, bert_get, b_pc, b_idx

bertVars == <<bert_config, bert_meta, bert_caches, bert_get, b_pc, b_idx>>

\* ling_unit.encode_symbol_sequence(ling_txt) of line idx: the sy stream
\* (symbol k of line idx is (idx + k) mod the unit size) and, as src, the
\* line the other streams were encoded from
EncodeLine(cfg, idx, len) ==
    [sy |-> [k \in 1..len |-> (idx + k) % cfg.unit_size], src |-> idx]

\* _get_random_mask(length, p1): any 0/1 vector of that length
RandomMasks(length) == [1..length -> {0, 1}]

\* bert_masking without clearing the last mask entry
ClearLast_Skip(mask) == mask

\* mask[-1] = 0
ClearLast(mask) == [mask EXCEPT ![Len(mask)] = 0]

P2 == [num |-> 8, den |-> 10]
P3 == [num |-> 1, den |-> 10]

\* BERT_Text_Dataset.bert_masking, given the draws: (mask, ling_sy_masked)
bert_masking(cfg, ling_data, drawn, rand, tok) ==
    LET mask == ClearLast(drawn)
    IN <<mask, _input_bert_masking(ling_data.sy, cfg.mask_symbol_id, mask,
                                   P2, P3, rand, tok)>>

\* the cache entry caching the whole returned tuple
BertCacheEntry_WithMask(ling_data, ling_sy_masked_data, bert_mask) ==
    <<ling_data, ling_sy_masked_data, bert_mask>>

\* self.caches[idx] = (ling_data,)
BertCacheEntry(ling_data, ling_sy_masked_data, bert_mask) == <<ling_data>>

BertConfigs ==
    UNION {[allow_cache : BOOLEAN, unit_size : {n},
            mask_symbol_id : 0..(n - 1)] : n \in 1..MaxCat}

NoBertGet == [idx |-> 0, raised |-> "start", item |-> <<>>, hit |-> FALSE,
              remasked |-> FALSE]

\* BERT_Text_Dataset.__init__, the dataset used by one process; the lines
\* are listed by increasing length
BertInit ==
    /\ bert_config \in BertConfigs
    /\ bert_meta \in [1..NumUtt -> 0..MaxSeqLen]
    /\ \A k \in 1..(NumUtt - 1) : bert_meta[k] <= bert_meta[k + 1]
    /\ bert_caches = [i \in 1..NumUtt |-> <<>>]
    /\ bert_get = NoBertGet
    /\ b_pc = [w \in 1..1 |-> "idle"]
    /\ b_idx = [w \in 1..1 |-> 0]

\* BERT_Text_Dataset.__init__ with caching on, the dataset shared by the
\* workers of a DataLoader: lines of two symbols, the first line empty or
\* not
BertSharedInit ==
    /\ bert_config = [allow_cache |-> TRUE, unit_size |-> MaxCat,
                      mask_symbol_id |-> 0]
    /\ \E first \in {0, 2} :
          bert_meta = [i \in 1..NumUtt |-> IF i = 1 THEN first ELSE 2]
    /\ bert_caches = [i \in 1..NumUtt |-> <<>>]
    /\ bert_get = NoBertGet
    /\ b_pc = [w \in 1..NumWorkers |-> "idle"]
    /\ b_idx = [w \in 1..NumWorkers |-> 0]

BertIdle ==
    /\ bert_config = [allow_cache |-> FALSE, unit_size |-> 1,
                      mask_symbol_id |-> 0]
    /\ bert_meta = <<>>
    /\ bert_caches = <<>>
    /\ bert_get = NoBertGet
    /\ b_pc = <<>>
    /\ b_idx = <<>>

\* __getitem__(idx) up to the answer to its check of the slot:
\* if self.allow_cache and len(self.caches[idx]) != 0
BertCheck(w, idx) ==
    /\ b_pc[w] = "idle"
    /\ idx \in 1..Len(bert_meta)
    /\ b_pc' = [b_pc EXCEPT ![w] =
                  IF bert_config.allow_cache /\ Len(bert_caches[idx]) # 0
                  THEN "hit" ELSE "miss"]
    /\ b_idx' = [b_idx EXCEPT ![w] = idx]
    /\ UNCHANGED <<bert_config, bert_meta, bert_caches, bert_get>>

\* the rest of __getitem__ for worker w, returning the mask m.  Hit branch:
\* the request self.caches[idx][0], then bert_masking and the return.  Miss
\* branch: the encoding and bert_masking, which are local to the worker,
\* then the request self.caches[idx] = (ling_data,) and the return.
BertFinishMask(w, m) ==
    /\ b_pc[w] \in {"hit", "miss"}
    /\ LET idx == b_idx[w]
           hit == b_pc[w] = "hit"
           ling_data == IF hit THEN bert_caches[idx][1]
                        ELSE EncodeLine(bert_config, idx, bert_meta[idx])
           length == Len(ling_data.sy)
           again == bert_get.idx = idx /\ bert_get.raised = "None"
       IN IF length = 0
          THEN /\ m = <<>>
               /\ bert_get' = [idx |-> idx, raised |-> "IndexError",
                               item |-> <<>>, hit |-> hit, remasked |-> FALSE]
               /\ UNCHANGED bert_caches
          ELSE \E drawn \in {d \in RandomMasks(length) : ClearLast(d) = m} :
               \E rand \in Shuffles(Len(WhereOne(ClearLast(drawn)))) :
               \E tok \in TokenDraws(bert_config.unit_size,
                                     ClearLast(drawn), P2, P3) :
                  LET r == bert_masking(bert_config, ling_data, drawn, rand, tok)
                      bert_mask == r[1]
                      ling_sy_masked_data == r[2]
                  IN /\ bert_get' = [idx |-> idx, raised |-> "None",
                                     item |-> <<ling_data, ling_sy_masked_data,
                                                bert_mask>>,
                                     hit |-> hit,
                                     remasked |-> again /\
                                        bert_get.item[3] # bert_mask]
                     /\ bert_caches' =
                          IF bert_config.allow_cache /\ ~hit
                          THEN CacheWrite(bert_caches, idx,
                                   BertCacheEntry(ling_data,
                                       ling_sy_masked_data, bert_mask))
                          ELSE bert_caches
    /\ b_pc' = [b_pc EXCEPT ![w] = "idle"]
    /\ UNCHANGED <<bert_config, bert_meta, b_idx>>

\* the masks a call on line idx can return
BertMasks(idx) == RandomMasks(bert_meta[idx])

\* the hit branch of __getitem__ after the check
BertHit(w) ==
    /\ b_pc[w] = "hit"
    /\ \E m \in BertMasks(b_idx[w]) : BertFinishMask(w, m)

\* the miss branch of __getitem__ after the check
BertMiss(w) ==
    /\ b_pc[w] = "miss"
    /\ \E m \in BertMasks(b_idx[w]) : BertFinishMask(w, m)

\* ------------------------------------------------- concurrent __getitem__
\* Worker processes of a DataLoader share the Manager list self.caches; each
\* read or write of a slot is one request to the manager process.  Worker w
\* is idle, about to check the slot of w_idx[w] ("check"), about to read it
\* again to return it ("hit"), about to decode ("load") or about to write
\* the slot ("write"); w_item[w] is the decoded tuple it holds and w_ret[w]
\* the outcome of the call it has just finished.
VARIABLES w_pc, w_idx, w_item, w_ret

raceVars == <<w_pc, w_idx, w_item, w_ret>>

Workers == 1..NumWorkers

\* the dataset the workers share
RaceVoc == Len(voc_meta) > 0
RaceLines == IF RaceVoc THEN Len(voc_meta) ELSE Len(am_meta)
RaceAllowCache ==
    IF RaceVoc THEN voc_config.allow_cache ELSE am_config.allow_cache
RaceCaches == IF RaceVoc THEN voc_caches ELSE am_caches
RaceDecode(idx) ==
    IF RaceVoc THEN VocDecode(voc_config, idx, voc_meta[idx])
    ELSE [raised |-> "None",
          item |-> AMDecode(am_config, am_with_duration, idx, am_meta[idx])]

NoRet == [idx |-> 0, raised |-> "start", item |-> <<>>]

\* a lines-long vocoder manifest of utterances that decode and utterances
\* that fail the length assertion, or an acoustic-model manifest of equal
\* lines, with caching on
RaceInit ==
    /\ \/ /\ voc_config = [n_fft |-> MaxFft, hop_length |-> MaxHop,
                           batch_max_steps |-> MaxSteps,
                           allow_cache |-> TRUE, nsf_enable |-> FALSE]
          /\ voc_meta \in [1..NumUtt ->
                              {[wav_len |-> MaxWav, mel_len |-> 1,
                                paths |-> 4],
                               [wav_len |-> 1, mel_len |-> MaxMel,
                                paths |-> 4]}]
          /\ voc_caches = [i \in 1..NumUtt |-> <<>>]
          /\ voc_get = NoGet
          /\ AMIdle
       \/ /\ am_config = [nsf_enable |-> FALSE, allow_cache |-> TRUE]
          /\ \E h \in BOOLEAN : \E rec \in AMRecords(h) :
                /\ am_meta = load_meta([has_dur_dir |-> h,
                                        lines |-> [k \in 1..NumUtt |-> rec]])
                /\ am_with_duration = h
          /\ am_caches = [i \in 1..NumUtt |-> <<>>]
          /\ am_get = NoGet
          /\ VocIdle
    /\ w_pc = [w \in Workers |-> "idle"]
    /\ w_idx = [w \in Workers |-> 0]
    /\ w_item = [w \in Workers |-> <<>>]
    /\ w_ret = [w \in Workers |-> NoRet]

RaceIdle ==
    /\ w_pc = <<>>
    /\ w_idx = <<>>
    /\ w_item = <<>>
    /\ w_ret = <<>>

\* worker w is handed index idx and enters __getitem__(idx)
WStart(w, idx) ==
    /\ w_pc[w] = "idle"
    /\ idx \in 1..RaceLines
    /\ w_pc' = [w_pc EXCEPT ![w] = "check"]
    /\ w_idx' = [w_idx EXCEPT ![w] = idx]
    /\ w_item' = [w_item EXCEPT ![w] = <<>>]
    /\ w_ret' = [w_ret EXCEPT ![w] = NoRet]
    /\ UNCHANGED <<vocVars, amVars>>

\* if self.allow_cache and len(self.caches[idx]) != 0
WCheck(w) ==
    /\ w_pc[w] = "check"
    /\ w_pc' = [w_pc EXCEPT ![w] =
                  IF RaceAllowCache /\ Len(RaceCaches[w_idx[w]]) # 0
                  THEN "hit" ELSE "load"]
    /\ UNCHANGED <<w_idx, w_item, w_ret, vocVars, amVars>>

\* return self.caches[idx]
WHit(w) ==
    /\ w_pc[w] = "hit"
    /\ w_ret' = [w_ret EXCEPT ![w] = [idx |-> w_idx[w], raised |-> "None",
                                      item |-> RaceCaches[w_idx[w]]]]
    /\ w_pc' = [w_pc EXCEPT ![w] = "idle"]
    /\ UNCHANGED <<w_idx, w_item, vocVars, amVars>>

\* the loads and the decode, in the worker's own memory
WLoad(w) ==
    /\ w_pc[w] = "load"
    /\ LET d == RaceDecode(w_idx[w])
       IN IF d.raised # "None"
          THEN /\ w_ret' = [w_ret EXCEPT ![w] =
                              [idx |-> w_idx[w], raised |-> d.raised,
                               item |-> <<>>]]
               /\ w_pc' = [w_pc EXCEPT ![w] = "idle"]
               /\ UNCHANGED w_item
          ELSE /\ w_item' = [w_item EXCEPT ![w] = d.item]
               /\ w_pc' = [w_pc EXCEPT ![w] = "write"]
               /\ UNCHANGED w_ret
    /\ UNCHANGED <<w_idx, vocVars, amVars>>

\* if self.allow_cache: self.caches[idx] = (...); return (...)
WWrite(w) ==
    /\ w_pc[w] = "write"
    /\ LET new == IF RaceAllowCache
                  THEN CacheWrite(RaceCaches, w_idx[w], w_item[w])
                  ELSE RaceCaches
       IN IF RaceVoc
          THEN voc_caches' = new /\ UNCHANGED am_caches
          ELSE am_caches' = new /\ UNCHANGED voc_caches
    /\ w_ret' = [w_ret EXCEPT ![w] = [idx |-> w_idx[w], raised |-> "None",
                                      item |-> w_item[w]]]
    /\ w_pc' = [w_pc EXCEPT ![w] = "idle"]
    /\ UNCHANGED <<w_idx, w_item, voc_config, voc_meta, voc_get,
                   am_config, am_meta, am_with_duration, am_get>>

\* ---------------------------------------------------------- gen_metafile
\* mf_kind is the dataset class whose gen_metafile runs, mf_n the number of
\* lines of the raw manifest (line k has index k), mf_split_ratio the
\* split ratio in hundredths, mf_exists the indices whose artifact files
\* all exist, mf_badlist what the badlist parameter is bound to;
\* mf_shuffled is the manifest after random.shuffle, mf_train / mf_valid
\* the lists written and mf_raised the exception of the call.
VARIABLES mf_kind, mf_n, mf_split_ratio, mf_exists, mf_badlist, mf_shuffled,
          mf_train, mf_valid, mf_raised, mf_pc

metaVars == <<mf_kind, mf_n, mf_split_ratio, mf_exists, mf_badlist,
              mf_shuffled, mf_train, mf_valid, mf_raised, mf_pc>>

\* split_ratio is kept in hundredths
RatioDen == 100

\* the split ratios drawn: 0.25, 0.5, 0.75 and 1.0 are exact in floating
\* point, and for the default 0.98 int(n * 0.98) is the integer quotient of
\* 98 n by 100 for every n up to MaxLines
Ratios == {25, 50, 75, 98, 100}

\* the default split_ratio=0.98
DefaultRatio == 98

\* num_train = int(len(lines) * split_ratio) - 1
num_train(n, split_ratio) == ((n * split_ratio) \div RatioDen) - 1

\* the position a slice bound b denotes in a list of length n
SliceBound(b, n) ==
    IF b < 0 THEN (IF b + n < 0 THEN 0 ELSE b + n) ELSE Min(b, n)

\* lines[:b] and lines[b:]
SliceTo(lines, b) == SubSeq(lines, 1, SliceBound(b, Len(lines)))
SliceFrom(lines, b) == SubSeq(lines, SliceBound(b, Len(lines)) + 1, Len(lines))

\* badlist=None, badlist a collection of indices, badlist a float
NoBadlist == [given |-> FALSE, iterable |-> FALSE, ids |-> {}]
BadlistOf(ids) == [given |-> TRUE, iterable |-> TRUE, ids |-> ids]
FloatBadlist == [given |-> TRUE, iterable |-> FALSE, ids |-> {}]

\* "badlist is not None and index in badlist" raises TypeError on the first
\* line of a loop it is evaluated for when badlist is not a container
BadlistTestRaises(kind, lines, badlist) ==
    kind = "am" /\ badlist.given /\ ~badlist.iterable /\ lines # <<>>

\* the line is written: not in the badlist (AM only) and all of its
\* artifact files exist (Voc and AM); the text dataset writes every line
Written(kind, index, exists, badlist) ==
    CASE kind = "bert" -> TRUE
      [] kind = "voc" -> index \in exists
      [] kind = "am" -> /\ ~(badlist.given /\ index \in badlist.ids)
                        /\ index \in exists

\* gen_metafile after random.shuffle produced lines: the lines written to
\* the train list and to the valid list, the exception raised, and whether
\* the valid list was opened for writing (the train list always is)
gen_metafile(kind, lines, split_ratio, exists, badlist) ==
    LET nt == num_train(Len(lines), split_ratio)
        keep(index) == Written(kind, index, exists, badlist)
        head == SliceTo(lines, nt)
        rest == SliceFrom(lines, nt)
    IN IF BadlistTestRaises(kind, head, badlist)
       THEN [raised |-> "TypeError", train |-> <<>>, valid |-> <<>>,
             valid_opened |-> FALSE]
       ELSE IF BadlistTestRaises(kind, rest, badlist)
       THEN [raised |-> "TypeError", train |-> SelectSeq(head, keep),
             valid |-> <<>>, valid_opened |-> TRUE]
       ELSE [raised |-> "None",
             train |-> SelectSeq(head, keep),
             valid |-> SelectSeq(rest, keep), valid_opened |-> TRUE]

MetaInit ==
    /\ mf_kind \in {"voc", "am", "bert"}
    /\ mf_n \in 0..MaxLines
    /\ mf_split_ratio \in Ratios
    /\ mf_exists \in SUBSET (1..mf_n)
    /\ mf_kind = "bert" => mf_exists = 1..mf_n
    /\ mf_badlist \in {NoBadlist} \cup
          (IF mf_kind = "am"
           THEN {BadlistOf(b) : b \in SUBSET (1..mf_n)}
           ELSE {})
    /\ mf_shuffled = <<>>
    /\ mf_train = <<>>
    /\ mf_valid = <<>>
    /\ mf_raised = "start"
    /\ mf_pc = "start"

MetaIdle ==
    /\ mf_kind = "off"
    /\ mf_n = 0
    /\ mf_split_ratio = RatioDen
    /\ mf_exists = {}
    /\ mf_badlist = NoBadlist
    /\ mf_shuffled = <<>>
    /\ mf_train = <<>>
    /\ mf_valid = <<>>
    /\ mf_raised = "start"
    /\ mf_pc = "off"

GenMetafile ==
    /\ mf_pc = "start"
    /\ \E perm \in Shuffles(mf_n) :
          LET lines == [k \in 1..mf_n |-> perm[k]]
              out == gen_metafile(mf_kind, lines, mf_split_ratio, mf_exists,
                                  mf_badlist)
          IN /\ mf_shuffled' = lines
             /\ mf_train' = out.train
             /\ mf_valid' = out.valid
             /\ mf_raised' = out.raised
    /\ mf_pc' = "done"
    /\ UNCHANGED <<mf_kind, mf_n, mf_split_ratio, mf_exists, mf_badlist>>

\* ------------------------------------------------ Padder._pad1D / _pad2D
\* pd_dim is 1 for a _pad1D call and 2 for a _pad2D call; pd_x is the array
\* (a 2-D array is its rows and its channel count cols, so that shape
\* (0, cols) exists), pd_length and pd_pad the other arguments, pd_out the
\* outcome.
VARIABLES pd_dim, pd_x, pd_length, pd_pad, pd_out, pd_pc

pdVars == <<pd_dim, pd_x, pd_length, pd_pad, pd_out, pd_pc>>

\* _pad1D putting the fill in front of x
_pad1D_Left(x, length, pad) ==
    IF length - Len(x) < 0
    THEN [raised |-> "ValueError", out |-> <<>>]
    ELSE [raised |-> "None", out |-> Repeat(pad, length - Len(x)) \o x]

\* Padder._pad1D: np.pad(x, (0, length - x.shape[0]), constant); np.pad
\* rejects a negative width
_pad1D(x, length, pad) ==
    IF length - Len(x) < 0
    THEN [raised |-> "ValueError", out |-> <<>>]
    ELSE [raised |-> "None", out |-> x \o Repeat(pad, length - Len(x))]

\* Padder._pad2D: np.pad(x, [(0, length - x.shape[0]), (0, 0)], constant)
_pad2D(x, length, pad) ==
    IF length - Len(x.rows) < 0
    THEN [raised |-> "ValueError", out |-> <<>>]
    ELSE [raised |-> "None",
          out |-> [rows |-> x.rows \o Repeat(Repeat(pad, x.cols),
                                             length - Len(x.rows)),
                   cols |-> x.cols]]

\* array entries and fill values of one dtype
PadValues == 0..2

Arrays1D == SeqsOf(PadValues, 0, MaxPadRows)
Arrays2D ==
    UNION {[rows : SeqsOf([1..c -> PadValues], 0, MaxPadRows), cols : {c}] :
              c \in 1..MaxPadCols}

NoPadOut == [raised |-> "start", out |-> <<>>]

PdInit ==
    /\ pd_dim \in {1, 2}
    /\ pd_x \in IF pd_dim = 1 THEN Arrays1D ELSE Arrays2D
    /\ pd_length \in 0..(MaxPadRows + 2)
    /\ pd_pad \in PadValues
    /\ pd_out = NoPadOut
    /\ pd_pc = "start"

PdIdle ==
    /\ pd_dim = 0
    /\ pd_x = <<>>
    /\ pd_length = 0
    /\ pd_pad = 0
    /\ pd_out = NoPadOut
    /\ pd_pc = "off"

\* one call of Padder._pad1D
Pad1D ==
    /\ pd_pc = "start" /\ pd_dim = 1
    /\ pd_out' = _pad1D(pd_x, pd_length, pd_pad)
    /\ pd_pc' = "done"
    /\ UNCHANGED <<pd_dim, pd_x, pd_length, pd_pad>>

\* one call of Padder._pad2D
Pad2D ==
    /\ pd_pc = "start" /\ pd_dim = 2
    /\ pd_out' = _pad2D(pd_x, pd_length, pd_pad)
    /\ pd_pc' = "done"
    /\ UNCHANGED <<pd_dim, pd_x, pd_length, pd_pad>>

\* -------------------------------------- Voc_Dataset built from a manifest
\* vb_lines: the manifest, each line kept as the files it names; vb_dirs_ok:
\* wav/ and mel/ exist under the data directory; vb_wavs: one entry per
\* *.wav file under wav/, TRUE when mel/ holds a file of the same name (the
\* directory is listed only when the manifest is empty); vb_pc: "build" before
\* __init__, "built" after it, "failed" once __init__ or a __getitem__ of
\* the loader has raised.
VARIABLES vb_lines, vb_dirs_ok, vb_wavs, vb_pc

vbVars == <<vb_lines, vb_dirs_ok, vb_wavs, vb_pc>>

\* Voc_Dataset.load_meta: one item per manifest line
Voc_load_meta(lines) == [k \in 1..Len(lines) |-> lines[k]]

\* Voc_Dataset.load_meta_from_dir: one 2-tuple per wav file whose name
\* exists under mel/
load_meta_from_dir(wavs) ==
    LET found == SelectSeq(wavs, LAMBDA same : same)
    IN [k \in 1..Len(found) |-> DirItem]

VbInit ==
    /\ voc_config \in VocConfigs
    /\ vb_lines \in SeqsOf(VocRecords, 0, NumUtt)
    /\ vb_dirs_ok \in BOOLEAN
    /\ vb_wavs \in IF vb_lines = <<>> /\ vb_dirs_ok
                   THEN SeqsOf(BOOLEAN, 0, NumUtt) ELSE {<<>>}
    /\ vb_pc = "build"
    /\ voc_meta = <<>>
    /\ voc_caches = <<>>
    /\ voc_get = NoGet
    /\ crop_batch = <<>>
    /\ start_frames = <<>>
    /\ voc_collated = NoCollated
    /\ crop_pc = "start"

VbIdle ==
    /\ vb_lines = <<>>
    /\ vb_dirs_ok = TRUE
    /\ vb_wavs = <<>>
    /\ vb_pc = "off"

\* Voc_Dataset.__init__(metafile, root_dir, config): load_meta of the
\* manifest, and, when that leaves self.meta empty, load_meta_from_dir of
\* wav/ and mel/
VocConstruct ==
    /\ vb_pc = "build"
    /\ IF ~vb_dirs_ok
       THEN /\ vb_pc' = "failed"
            /\ UNCHANGED <<voc_meta, voc_caches>>
       ELSE LET from_manifest == Voc_load_meta(vb_lines)
                meta == IF Len(from_manifest) = 0
                        THEN load_meta_from_dir(vb_wavs)
                        ELSE from_manifest
            IN /\ voc_meta' = meta
               /\ voc_caches' = [i \in 1..Len(meta) |-> <<>>]
               /\ vb_pc' = "built"
    /\ UNCHANGED <<voc_config, voc_get, vb_lines, vb_dirs_ok, vb_wavs,
                   cropVars>>

\* the loader fetches dataset[idx] for the batch it is assembling
VocFetch(idx) ==
    /\ vb_pc = "built" /\ crop_pc = "start"
    /\ Len(crop_batch) < MaxBatch
    /\ VocGetItem(idx)
    /\ IF voc_get'.raised = "None"
       THEN /\ crop_batch' = Append(crop_batch, voc_get'.item)
            /\ UNCHANGED vb_pc
       ELSE /\ vb_pc' = "failed"
            /\ UNCHANGED crop_batch
    /\ UNCHANGED <<vb_lines, vb_dirs_ok, vb_wavs, start_frames, voc_collated,
                   crop_pc>>

\* the loader passes the assembled batch to collate_fn
VocCollateBatch ==
    /\ vb_pc = "built"
    /\ crop_batch # <<>>
    /\ VocCollate
    /\ UNCHANGED vbVars

\* ---------------------------------------- beta_binomial_prior_distribution
\* bb_P, bb_M, bb_scaling: the arguments of one call (scaling a positive
\* integer, 1 by default); bb_out: the returned matrix, each probability an
\* exact fraction num / den.
VARIABLES bb_P, bb_M, bb_scaling, bb_out, bb_pc

bbVars == <<bb_P, bb_M, bb_scaling, bb_out, bb_pc>>

RECURSIVE Rising(_, _)
\* x (x + 1) ... (x + k - 1)
Rising(x, k) == IF k = 0 THEN 1 ELSE Rising(x, k - 1) * (x + k - 1)

RECURSIVE Binomial(_, _)
Binomial(n, k) ==
    IF k = 0 THEN 1 ELSE (Binomial(n, k - 1) * (n - k + 1)) \div k

\* scipy.stats.betabinom(n, a, b).pmf(k) for integers a, b >= 1 and
\* 0 <= k <= n:  C(n, k) B(k + a, n - k + b) / B(a, b)
betabinom_pmf(n, a, b, k) ==
    [num |-> Binomial(n, k) * Rising(a, k) * Rising(b, n - k),
     den |-> Rising(a + b, n)]

\* np.arange(0, P)
arange(P) == [j \in 1..P |-> j - 1]

\* beta_binomial_prior_distribution(phoneme_count, mel_count, scaling)
beta_binomial_prior_distribution(phoneme_count, mel_count, scaling) ==
    LET P == phoneme_count
        M == mel_count
        x == arange(P)
    IN [i \in 1..M |->
           LET a == scaling * i
               b == scaling * (M + 1 - i)
           IN [j \in 1..P |-> betabinom_pmf(P, a, b, x[j])]]

BbInit ==
    /\ bb_P \in 1..MaxP
    /\ bb_M \in 1..MaxM
    /\ bb_scaling \in 1..MaxScaling
    /\ bb_out = <<>>
    /\ bb_pc = "start"

BbIdle ==
    /\ bb_P = 0
    /\ bb_M = 0
    /\ bb_scaling = 1
    /\ bb_out = <<>>
    /\ bb_pc = "off"

\* one call of beta_binomial_prior_distribution
BetaBinomialPrior ==
    /\ bb_pc = "start"
    /\ bb_out' = beta_binomial_prior_distribution(bb_P, bb_M, bb_scaling)
    /\ bb_pc' = "done"
    /\ UNCHANGED <<bb_P, bb_M, bb_scaling>>

\* ---------------------------------------------------------- get_am_datasets
\* One call of get_am_datasets with one metafile and one root_dir.
\* ga_split_ratio: the split_ratio the caller gave, in hundredths;
\* ga_train_exists, ga_valid_exists: am_train.lst / am_valid.lst is present
\* under the data directory (mf_train / mf_valid is then its content);
\* ga_has_dur: the data directory has a duration/ subdirectory;
\* ga_datasets: the (train_dataset, valid_dataset) pair returned.  The
\* manifest and the files are those of the gen_metafile variables, which
\* also take the outcome.
VARIABLES ga_split_ratio, ga_train_exists, ga_valid_exists, ga_has_dur,
          ga_datasets

gaVars == <<ga_split_ratio, ga_train_exists, ga_valid_exists, ga_has_dur,
            ga_datasets>>

\* AM_Dataset.gen_metafile(raw_meta_file, out_dir, badlist=None,
\* split_ratio=0.98) called with the positional arguments
\* (raw_metafile, data_dir, third): third is bound to badlist
BindGenMetafile(third) ==
    [badlist |-> third, split_ratio |-> DefaultRatio]

\* AM_Dataset(config, list_file, root_dir, allow_cache): self.meta and
\* self.with_duration after __init__
AMDatasetOf(lines, hasDur) ==
    LET dirs == <<[has_dur_dir |-> hasDur, lines |-> lines]>>
    IN [meta |-> AMBuildMeta(dirs), with_duration |-> AMWithDuration(dirs)]

NoDatasets == [built |-> FALSE, train |-> <<>>, valid |-> <<>>]

\* what a list file left by an earlier run can hold
OldLists == SeqsOf(1..MaxLines, 0, 1)

GaInit ==
    /\ ga_split_ratio \in Ratios
    /\ ga_train_exists \in BOOLEAN
    /\ ga_valid_exists \in BOOLEAN
    /\ ga_has_dur \in BOOLEAN
    /\ ga_datasets = NoDatasets
    /\ mf_kind = "am"
    /\ mf_n \in 0..MaxLines
    /\ mf_exists \in SUBSET (1..mf_n)
    /\ mf_exists # {} => ga_has_dur
    /\ mf_split_ratio = DefaultRatio
    /\ mf_badlist = NoBadlist
    /\ mf_shuffled = <<>>
    /\ mf_train \in IF ga_train_exists THEN OldLists ELSE {<<>>}
    /\ mf_valid \in IF ga_valid_exists THEN OldLists ELSE {<<>>}
    /\ mf_raised = "start"
    /\ mf_pc = "start"

GaIdle ==
    /\ ga_split_ratio = DefaultRatio
    /\ ga_train_exists = FALSE
    /\ ga_valid_exists = FALSE
    /\ ga_has_dur = FALSE
    /\ ga_datasets = NoDatasets

\* get_am_datasets: the lists are generated when one of them is missing,
\* then the train and the valid dataset are built from the lists
GetAmDatasets ==
    /\ mf_pc = "start"
    /\ IF ga_train_exists /\ ga_valid_exists
       THEN /\ mf_pc' = "kept"
            /\ mf_raised' = "None"
            /\ ga_datasets' = [built |-> TRUE,
                               train |-> AMDatasetOf(mf_train, ga_has_dur),
                               valid |-> AMDatasetOf(mf_valid, ga_has_dur)]
            /\ UNCHANGED <<mf_split_ratio, mf_badlist, mf_shuffled,
                           mf_train, mf_valid, ga_train_exists,
                           ga_valid_exists>>
       ELSE LET call == BindGenMetafile(FloatBadlist)
            IN /\ mf_badlist' = call.badlist
               /\ mf_split_ratio' = call.split_ratio
               /\ \E perm \in Shuffles(mf_n) :
                     LET lines == [k \in 1..mf_n |-> perm[k]]
                         out == gen_metafile("am", lines, call.split_ratio,
                                             mf_exists, call.badlist)
                     IN /\ mf_shuffled' = lines
                        /\ mf_train' = out.train
                        /\ ga_train_exists' = TRUE
                        /\ mf_valid' = IF out.valid_opened THEN out.valid
                                       ELSE mf_valid
                        /\ ga_valid_exists' =
                              (ga_valid_exists \/ out.valid_opened)
                        /\ mf_raised' = out.raised
                        /\ ga_datasets' =
                              IF out.raised # "None" THEN NoDatasets
                              ELSE [built |-> TRUE,
                                    train |-> AMDatasetOf(out.train,
                                                          ga_has_dur),
                                    valid |-> AMDatasetOf(out.valid,
                                                          ga_has_dur)]
               /\ mf_pc' = "done"
    /\ UNCHANGED <<mf_kind, mf_n, mf_exists, ga_split_ratio, ga_has_dur>>

vars == <<padVars, colVars, vocVars, amVars, cropVars, mkVars, bertVars,
          raceVars, metaVars, pdVars, vbVars, bbVars, gaVars>>

InitPad == PadInit /\ ColIdle /\ VocIdle /\ AMIdle /\ CropIdle /\ MaskIdle /\ BertIdle /\ RaceIdle /\ MetaIdle /\ PdIdle /\ VbIdle /\ BbIdle /\ GaIdle
NextPad == PadDurations
              /\ UNCHANGED <<colVars, vocVars, amVars, cropVars, mkVars, bertVars, raceVars, metaVars, pdVars, vbVars, bbVars, gaVars>>
SpecPad == InitPad /\ [][NextPad]_vars

InitCol == ColInit /\ PadIdle /\ VocIdle /\ AMIdleRest /\ CropIdle /\ MaskIdle /\ BertIdle /\ RaceIdle /\ MetaIdle /\ PdIdle /\ VbIdle /\ BbIdle /\ GaIdle
NextCol == AMCollate /\ UNCHANGED <<padVars, vocVars, am_config, am_meta,
                                    am_caches, am_get, cropVars, mkVars, bertVars, raceVars, metaVars, pdVars, vbVars, bbVars, gaVars>>
SpecCol == InitCol /\ [][NextCol]_vars

\* one call of the acoustic-model collator on a batch of __getitem__ results
InitColLen == ColLenInit /\ PadIdle /\ VocIdle /\ AMIdleRest /\ CropIdle
                 /\ MaskIdle /\ BertIdle /\ RaceIdle /\ MetaIdle /\ PdIdle /\ VbIdle /\ BbIdle /\ GaIdle
SpecColLen == InitColLen /\ [][NextCol]_vars

\* one process calling __getitem__ of a vocoder or an acoustic-model dataset
InitData ==
    /\ PadIdle /\ ColIdle /\ CropIdle /\ MaskIdle /\ BertIdle /\ RaceIdle /\ MetaIdle /\ PdIdle /\ VbIdle /\ BbIdle /\ GaIdle
    /\ \/ /\ VocInit /\ AMIdle
          /\ voc_config.batch_max_steps = voc_config.hop_length
       \/ AMInit /\ VocIdle
NextData ==
    \/ (\E idx \in 1..NumUtt : VocGetItem(idx))
          /\ UNCHANGED <<padVars, colVars, amVars, cropVars, mkVars, bertVars, raceVars, metaVars, pdVars, vbVars, bbVars, gaVars>>
    \/ (\E idx \in 1..NumUtt : AMGetItem(idx))
          /\ UNCHANGED <<padVars, colVars, vocVars, cropVars, mkVars, bertVars, raceVars, metaVars, pdVars, vbVars, bbVars, gaVars>>
SpecData == InitData /\ [][NextData]_vars

\* one call of the vocoder collator on a batch of __getitem__ results
InitCrop == CropInit /\ PadIdle /\ ColIdle /\ AMIdle /\ MaskIdle /\ BertIdle
               /\ RaceIdle /\ MetaIdle /\ PdIdle /\ VbIdle /\ BbIdle /\ GaIdle
NextCrop == VocCollate
               /\ UNCHANGED <<padVars, colVars, amVars, mkVars, bertVars, raceVars, metaVars, pdVars, vbVars, bbVars, gaVars>>
SpecCrop == InitCrop /\ [][NextCrop]_vars

\* one call of the masking actor's corruption step
InitMask == MaskInit /\ PadIdle /\ ColIdle /\ VocIdle /\ AMIdle /\ CropIdle
               /\ BertIdle /\ RaceIdle /\ MetaIdle /\ PdIdle /\ VbIdle /\ BbIdle /\ GaIdle
NextMask == InputBertMasking
               /\ UNCHANGED <<padVars, colVars, vocVars, amVars, cropVars,
                              bertVars, raceVars, metaVars, pdVars, vbVars, bbVars, gaVars>>
SpecMask == InitMask /\ [][NextMask]_vars

\* one process calling __getitem__ of a masked-text dataset
InitBert == (BertInit \/ BertSharedInit) /\ PadIdle /\ ColIdle /\ VocIdle /\ AMIdle /\ CropIdle
               /\ MaskIdle /\ RaceIdle /\ MetaIdle /\ PdIdle /\ VbIdle /\ BbIdle /\ GaIdle
NextBert == (\E w \in DOMAIN b_pc :
                \/ \E idx \in 1..NumUtt : BertCheck(w, idx)
                \/ BertHit(w)
                \/ BertMiss(w))
               /\ UNCHANGED <<padVars, colVars, vocVars, amVars, cropVars,
                              mkVars, raceVars, metaVars, pdVars, vbVars, bbVars, gaVars>>
SpecBert == InitBert /\ [][NextBert]_vars

\* worker processes calling __getitem__ of one shared dataset
InitRace == RaceInit /\ PadIdle /\ ColIdle /\ CropIdle /\ MaskIdle /\ BertIdle
               /\ MetaIdle /\ PdIdle /\ VbIdle /\ BbIdle /\ GaIdle
NextRace ==
    /\ \E w \in Workers :
          \/ \E idx \in 1..NumUtt : WStart(w, idx)
          \/ WCheck(w)
          \/ WHit(w)
          \/ WLoad(w)
          \/ WWrite(w)
    /\ UNCHANGED <<padVars, colVars, cropVars, mkVars, bertVars, metaVars, pdVars, vbVars, bbVars, gaVars>>
SpecRace == InitRace /\ [][NextRace]_vars

\* one run of a dataset class's gen_metafile
InitMeta == MetaInit /\ PadIdle /\ ColIdle /\ VocIdle /\ AMIdle /\ CropIdle
               /\ MaskIdle /\ BertIdle /\ RaceIdle /\ PdIdle /\ VbIdle /\ BbIdle /\ GaIdle
NextMeta == GenMetafile
               /\ UNCHANGED <<padVars, colVars, vocVars, amVars, cropVars,
                              mkVars, bertVars, raceVars, pdVars, vbVars, bbVars, gaVars>>
SpecMeta == InitMeta /\ [][NextMeta]_vars

\* one call of Padder._pad1D or Padder._pad2D
InitPd == PdInit /\ PadIdle /\ ColIdle /\ VocIdle /\ AMIdle /\ CropIdle
             /\ MaskIdle /\ BertIdle /\ RaceIdle /\ MetaIdle /\ VbIdle /\ BbIdle /\ GaIdle
NextPd == (Pad1D \/ Pad2D)
             /\ UNCHANGED <<padVars, colVars, vocVars, amVars, cropVars,
                            mkVars, bertVars, raceVars, metaVars, vbVars, bbVars, gaVars>>
SpecPd == InitPd /\ [][NextPd]_vars

\* a vocoder dataset is built from a manifest and a loader draws one batch
InitVb == VbInit /\ PadIdle /\ ColIdle /\ AMIdle /\ MaskIdle /\ BertIdle
             /\ RaceIdle /\ MetaIdle /\ PdIdle /\ BbIdle /\ GaIdle
NextVb ==
    /\ \/ VocConstruct
       \/ \E idx \in 1..NumUtt : VocFetch(idx)
       \/ VocCollateBatch
    /\ UNCHANGED <<padVars, colVars, amVars, mkVars, bertVars, raceVars,
                   metaVars, pdVars, bbVars, gaVars>>
SpecVb == InitVb /\ [][NextVb]_vars

\* one call of the attention-prior function
InitBb == BbInit /\ PadIdle /\ ColIdle /\ VocIdle /\ AMIdle /\ CropIdle
             /\ MaskIdle /\ BertIdle /\ RaceIdle /\ MetaIdle /\ PdIdle
             /\ VbIdle /\ GaIdle
NextBb == BetaBinomialPrior
             /\ UNCHANGED <<padVars, colVars, vocVars, amVars, cropVars,
                            mkVars, bertVars, raceVars, metaVars, pdVars,
                            vbVars, gaVars>>
SpecBb == InitBb /\ [][NextBb]_vars

\* one call of get_am_datasets with one manifest and one data directory
InitGa == GaInit /\ PadIdle /\ ColIdle /\ VocIdle /\ AMIdle /\ CropIdle
             /\ MaskIdle /\ BertIdle /\ RaceIdle /\ PdIdle /\ VbIdle
             /\ BbIdle
NextGa == GetAmDatasets
             /\ UNCHANGED <<padVars, colVars, vocVars, amVars, cropVars,
                            mkVars, bertVars, raceVars, pdVars, vbVars,
                            bbVars>>
SpecGa == InitGa /\ [][NextGa]_vars

\* C1: in the deficit branch (len(duration) <= max_in_len and
\* sum(duration) < max_out_len) the padded durations sum to max_out_len
\* and have exactly max_in_len entries, also when len(duration) = max_in_len.
C1_DeficitBranchShape ==
    (pad_pc = "done" /\ Len(duration) <= max_in_len
                     /\ SeqSum(duration) < max_out_len)
        => (SeqSum(pad_out) = max_out_len /\ Len(pad_out) = max_in_len)

\* C2: with explicit durations the collator returns a durations tensor of
\* shape (B, max_input_length) and a mel_targets tensor of shape (B, R, C),
\* R the smallest multiple of outputs_per_step >= the largest frame count.
C2_CollateShapes ==
    (col_pc = "done" /\ am_with_duration)
        => LET B == Len(batch)
               maxIn == SetMax({batch[i].ling_len : i \in 1..B})
               maxOut == SetMax({batch[i].mel_len : i \in 1..B})
               R == CHOOSE k \in maxOut..(maxOut + am_r) :
                        /\ k % am_r = 0
                        /\ \A j \in maxOut..(k - 1) : j % am_r # 0
           IN /\ data_dict.raised = "None"
              /\ Shape2(data_dict.durations) = <<B, maxIn>>
              /\ data_dict.mel_targets = <<B, R, n_chan>>

\* C3: when every member of the batch has len(waveform) =
\* len(mel) * hop_length and more than batch_max_frames frames, then for
\* every start frame drawn from [0, len(mel) - batch_max_frames) each
\* waveform crop has batch_max_steps samples and starts at sample
\* start_frame * hop_length, and each mel crop has batch_max_frames frames
\* and starts at frame start_frame.
C3_CropSizes ==
    LET hop == voc_config.hop_length
        bmf == voc_config.batch_max_steps \div hop
        B == Len(crop_batch)
    IN (/\ crop_pc = "done"
        /\ \A i \in 1..B :
              /\ Len(crop_batch[i][1]) = Len(crop_batch[i][2].frames) * hop
              /\ Len(crop_batch[i][2].frames) > bmf)
       => /\ voc_collated.raised = "None"
          /\ \A i \in 1..B :
                /\ start_frames[i] \in
                      0..(Len(crop_batch[i][2].frames) - bmf - 1)
                /\ Len(voc_collated.wav_batch[i]) = voc_config.batch_max_steps
                /\ Len(voc_collated.mel_batch[i]) = bmf
                /\ voc_collated.wav_batch[i] =
                      SubSeq(crop_batch[i][1], start_frames[i] * hop + 1,
                             start_frames[i] * hop
                                + voc_config.batch_max_steps)
                /\ voc_collated.mel_batch[i] =
                      SubSeq(crop_batch[i][2].frames, start_frames[i] + 1,
                             start_frames[i] + bmf)

\* C3 witness: a batch of two was cropped with batch_max_steps not a
\* multiple of hop_length and at least one frame per mel crop, its members
\* starting at different frames, one of them at the last frame of its draw
\* range, which is not frame 0, and each crop is the non-empty slice that
\* starts at its member's start frame.
C3_Witness ==
    /\ crop_pc = "done"
    /\ voc_collated.raised = "None"
    /\ voc_config.batch_max_steps % voc_config.hop_length # 0
    /\ voc_config.batch_max_steps \div voc_config.hop_length >= 1
    /\ Len(crop_batch) >= 2
    /\ start_frames[1] # start_frames[2]
    /\ \A i \in 1..Len(crop_batch) :
          /\ Len(crop_batch[i][1])
                = Len(crop_batch[i][2].frames) * voc_config.hop_length
          /\ Len(crop_batch[i][2].frames)
                > voc_config.batch_max_steps \div voc_config.hop_length
          /\ voc_collated.mel_batch[i] # <<>>
          /\ voc_collated.mel_batch[i][1]
                = crop_batch[i][2].frames[start_frames[i] + 1]
          /\ voc_collated.wav_batch[i][1]
                = crop_batch[i][1][start_frames[i] * voc_config.hop_length + 1]
    /\ \E i \in 1..Len(crop_batch) :
          /\ start_frames[i] > 0
          /\ start_frames[i] = Len(crop_batch[i][2].frames)
                - (voc_config.batch_max_steps \div voc_config.hop_length) - 1

\* C4: Voc_Dataset.__getitem__ returns a pair with
\* len(waveform) = len(mel) * hop_length or fails; when the raw waveform
\* plus n_fft samples is shorter than len(mel) * hop_length it fails,
\* returns nothing and leaves the slot of that index empty; no mismatched
\* pair is returned or cached.
C4_LengthInvariant ==
    LET hop == voc_config.hop_length
        Matched(item) == Len(item[1]) = Len(item[2].frames) * hop
    IN /\ voc_get.idx # 0 =>
            LET rec == voc_meta[voc_get.idx]
                short == rec.wav_len + voc_config.n_fft < rec.mel_len * hop
            IN /\ voc_get.raised = "None" => Matched(voc_get.item)
               /\ voc_get.raised # "None" =>
                      /\ voc_get.item = <<>>
                      /\ voc_caches[voc_get.idx] = <<>>
               /\ short => voc_get.raised # "None"
               /\ rec.wav_len >= 1 =>
                      (voc_get.raised = "AssertionError" <=> short)
       /\ \A i \in 1..Len(voc_caches) :
            voc_caches[i] # <<>> => Matched(voc_caches[i])

\* C4 witness: with caching on, an access failed the length assertion and
\* left its slot empty while another slot holds a matched pair.
C4_Witness ==
    /\ voc_config.allow_cache
    /\ voc_get.raised = "AssertionError"
    /\ voc_caches[voc_get.idx] = <<>>
    /\ \E j \in 1..Len(voc_caches) : voc_caches[j] # <<>>

\* the arrays _input_bert_masking can return on the arguments of the call
C5_Outcomes ==
    {_input_bert_masking(mk_seq, mk_mask_symbol_id, mk_mask, mk_p2, mk_p3,
                         r, t) :
        r \in Shuffles(Len(WhereOne(mk_mask))),
        t \in TokenDraws(mk_cat, mk_mask, mk_p2, mk_p3)}

\* C5: with n masked positions, floor(n*p2) of them hold mask_symbol_id, a
\* disjoint floor(n*p3) of them hold token ids of [0, nb_symbol_category)
\* drawn independently per position (every assignment of tokens to that
\* slice is a possible result), all other positions keep their symbol and
\* the input array is unchanged.
C5_CorruptionPolicy ==
    mk_pc = "done" =>
        LET mask_id == WhereOne(mk_mask)
            n == Len(mask_id)
            n2 == FloorMul(n, mk_p2)
            n3 == FloorMul(n, mk_p3)
            S2 == {mask_id[mk_rand[i]] : i \in 1..n2}
            S3 == {mask_id[mk_rand[i]] : i \in (n2 + 1)..(n2 + n3)}
        IN /\ Cardinality(S2) = n2 /\ Cardinality(S3) = n3
           /\ S2 \cap S3 = {}
           /\ Len(mk_out) = Len(mk_seq)
           /\ \A i \in 1..Len(mk_seq) :
                 /\ i \in S2 => mk_out[i] = mk_mask_symbol_id
                 /\ i \in S3 => mk_out[i] \in 0..(mk_cat - 1)
                 /\ i \notin S2 \cup S3 => mk_out[i] = mk_seq[i]
           /\ \A toks \in [S3 -> 0..(mk_cat - 1)] :
                 [i \in 1..Len(mk_seq) |->
                     IF i \in S2 THEN mk_mask_symbol_id
                     ELSE IF i \in S3 THEN toks[i]
                     ELSE mk_seq[i]] \in C5_Outcomes

\* the clean linguistic tuple of line idx of the masked-text dataset
BertClean(idx) == EncodeLine(bert_config, idx, bert_meta[idx])

\* C6: every access to BERT_Text_Dataset (hit or miss) on a non-empty symbol
\* sequence returns a mask whose last entry is 0 and a corrupted stream
\* whose last symbol is the last symbol of the clean stream.
C6_TerminatorSurvives ==
    (bert_get.idx # 0 /\ bert_meta[bert_get.idx] > 0) =>
        LET clean == BertClean(bert_get.idx).sy
            L == Len(clean)
        IN /\ bert_get.raised = "None"
           /\ Len(bert_get.item[3]) = L
           /\ Len(bert_get.item[2]) = L
           /\ bert_get.item[3][L] = 0
           /\ bert_get.item[2][L] = clean[L]
           /\ bert_get.item[1].sy[L] = clean[L]

\* C6 witness: a cache hit whose corrupted stream differs from the clean
\* one at a masked position, the last position being intact.
C6_Witness ==
    /\ bert_get.hit
    /\ bert_get.raised = "None"
    /\ \E k \in 1..(Len(bert_get.item[3]) - 1) :
          /\ bert_get.item[3][k] = 1
          /\ bert_get.item[2][k] # bert_get.item[1].sy[k]
    /\ bert_get.item[2][Len(bert_get.item[2])]
          = bert_get.item[1].sy[Len(bert_get.item[2])]

\* C8: every slot of the masked-text cache is empty or holds exactly the
\* clean linguistic tuple of its index; every access returns the clean tuple
\* of its index; and every access under way on a non-empty line, cache hit
\* or not, can return any mask whose last entry is 0 (the mask is drawn
\* afresh).
C8_CacheContent ==
    /\ \A i \in 1..Len(bert_caches) :
          bert_caches[i] = <<>> \/ bert_caches[i] = <<BertClean(i)>>
    /\ (bert_get.idx # 0 /\ bert_get.raised = "None") =>
          bert_get.item[1] = BertClean(bert_get.idx)
    /\ \A w \in DOMAIN b_pc :
          (b_pc[w] # "idle" /\ bert_meta[b_idx[w]] > 0) =>
             \A m \in BertMasks(b_idx[w]) :
                m[Len(m)] = 0 => ENABLED BertFinishMask(w, m)

\* C8 witness: a cache hit returned a mask different from the one the
\* access just before it returned for the same index, the slot holding only
\* the clean tuple both times.
C8_Witness ==
    /\ bert_get.hit
    /\ bert_get.raised = "None"
    /\ bert_get.remasked
    /\ bert_caches[bert_get.idx] = <<bert_get.item[1]>>

\* what an uncached dataset returns for the index of the last access
VocUncached ==
    VocDecode(voc_config, voc_get.idx, voc_meta[voc_get.idx])
AMUncached ==
    AMDecode(am_config, am_with_duration, am_get.idx, am_meta[am_get.idx])

C7_Returns ==
    /\ voc_get.idx # 0 =>
          /\ voc_get.raised = VocUncached.raised
          /\ voc_get.item = VocUncached.item
          /\ (voc_config.allow_cache /\ voc_get.raised = "None")
                => voc_caches[voc_get.idx] = voc_get.item
    /\ am_get.idx # 0 =>
          /\ am_get.raised = "None"
          /\ am_get.item = AMUncached
          /\ am_config.allow_cache => am_caches[am_get.idx] = am_get.item

C7_Stable ==
    /\ \A i \in 1..Len(voc_caches) :
          voc_caches[i] # <<>> => voc_caches'[i] = voc_caches[i]
    /\ \A i \in 1..Len(am_caches) :
          am_caches[i] # <<>> => am_caches'[i] = am_caches[i]

C7_EmptyAtConstruction ==
    /\ \A i \in 1..Len(voc_caches) : voc_caches[i] = <<>>
    /\ \A i \in 1..Len(am_caches) : am_caches[i] = <<>>

\* C7: for the vocoder and acoustic-model adapters every slot is empty at
\* construction, the first successful access to an index populates its slot,
\* a populated slot never empties or changes, and every access (hit or
\* miss) returns what an uncached dataset returns for that index.
C7_CacheTransparent ==
    /\ C7_EmptyAtConstruction
    /\ [][C7_Stable]_vars
    /\ []C7_Returns

\* C7 witness: an access was served from a populated slot.
C7_Witness ==
    \/ voc_get.hit /\ voc_get.raised = "None" /\ voc_get.item # <<>>
    \/ am_get.hit /\ am_get.raised = "None" /\ am_get.item # <<>>

C9_Returns ==
    /\ \A w \in Workers :
          w_ret[w].idx # 0 =>
             /\ w_ret[w].raised = RaceDecode(w_ret[w].idx).raised
             /\ w_ret[w].item = RaceDecode(w_ret[w].idx).item
    /\ \A i \in 1..RaceLines :
          RaceCaches[i] # <<>> => RaceCaches[i] = RaceDecode(i).item

C9_OneSlotPerWrite ==
    \A j \in 1..RaceLines :
       RaceCaches'[j] # RaceCaches[j] =>
          \E w \in Workers :
             w_pc[w] = "write" /\ w_pc'[w] = "idle" /\ w_idx[w] = j

\* C9: under every interleaving of the workers' check, decode and write
\* steps, every worker returns the decode of its own index, every written
\* slot holds the decode of its own index, and a slot changes only in the
\* write step of a worker working on that slot's index.
C9_RaceTolerant == []C9_Returns /\ [][C9_OneSlotPerWrite]_vars

\* C9 witness: two workers have both missed on the same index and each is
\* about to write that slot, while another slot is already populated.
C9_Witness ==
    /\ NumWorkers >= 2
    /\ w_pc[1] = "write" /\ w_pc[2] = "write"
    /\ w_idx[1] = w_idx[2]
    /\ \E j \in 1..RaceLines : j # w_idx[1] /\ RaceCaches[j] # <<>>

\* the first k elements of a list, none when k is not positive
FirstLines(lines, k) == SubSeq(lines, 1, Min(k, Len(lines)))

\* C10: gen_metafile puts the first floor(N * split_ratio) - 1 lines of the
\* shuffled manifest in the train list and all remaining lines in the valid
\* list, dropping the lines that are not written; every written line is in
\* exactly one of the two lists.
C10_SplitAtNumTrain ==
    mf_pc = "done" =>
       LET k == ((mf_n * mf_split_ratio) \div RatioDen) - 1
           head == FirstLines(mf_shuffled, k)
           rest == SubSeq(mf_shuffled, Len(head) + 1, mf_n)
           keep(index) == Written(mf_kind, index, mf_exists, mf_badlist)
       IN /\ mf_train = SelectSeq(head, keep)
          /\ mf_valid = SelectSeq(rest, keep)
          /\ \A index \in 1..mf_n :
                keep(index) =>
                   Cardinality({i \in 1..Len(mf_train) : mf_train[i] = index})
                   + Cardinality({i \in 1..Len(mf_valid) : mf_valid[i] = index})
                   = 1

\* C11: when collate_fn returns, every batch tensor has first dimension
\* len(batch), valid_input_lengths[i] is the symbol count of example i
\* minus one and at most max_input_length, and valid_output_lengths[i] is
\* the frame count of example i and at most the frame dimension of
\* mel_targets.
C11_LengthBookkeeping ==
    (col_pc = "done" /\ data_dict.raised = "None") =>
       LET B == Len(batch)
       IN /\ B >= 1
          /\ data_dict.input_lings[1] = B
          /\ data_dict.input_emotions[1] = B
          /\ data_dict.input_speakers[1] = B
          /\ Len(data_dict.valid_input_lengths) = B
          /\ Len(data_dict.valid_output_lengths) = B
          /\ data_dict.mel_targets[1] = B
          /\ data_dict.pitch_contours[1] = B
          /\ data_dict.energy_contours[1] = B
          /\ data_dict.has_durations => Len(data_dict.durations) = B
          /\ data_dict.has_attn_priors => data_dict.attn_priors[1] = B
          /\ \A i \in 1..B :
                /\ data_dict.valid_input_lengths[i] = batch[i].ling_len - 1
                /\ data_dict.valid_input_lengths[i] <= data_dict.input_lings[2]
                /\ data_dict.valid_output_lengths[i] = batch[i].mel_len
                /\ data_dict.valid_output_lengths[i] <= data_dict.mel_targets[2]

\* C11 witness: collate_fn returned for a batch of two examples of
\* different symbol and frame counts whose frame dimension was rounded up.
C11_Witness ==
    /\ col_pc = "done" /\ data_dict.raised = "None"
    /\ Len(batch) >= 2
    /\ batch[1].ling_len < batch[2].ling_len
    /\ batch[1].mel_len < batch[2].mel_len
    /\ data_dict.mel_targets[2] > batch[2].mel_len

\* C12: for length >= len(x), _pad1D and _pad2D return exactly length
\* entries along axis 0, the first len(x) of them are x unchanged, every
\* later one is the fill value, and _pad2D leaves the channel count as it
\* was.
C12_PadRight ==
    (pd_pc = "done" /\ pd_length >= (IF pd_dim = 1 THEN Len(pd_x)
                                     ELSE Len(pd_x.rows))) =>
       /\ pd_out.raised = "None"
       /\ IF pd_dim = 1
          THEN /\ Len(pd_out.out) = pd_length
               /\ SubSeq(pd_out.out, 1, Len(pd_x)) = pd_x
               /\ \A k \in (Len(pd_x) + 1)..pd_length :
                     pd_out.out[k] = pd_pad
          ELSE /\ Len(pd_out.out.rows) = pd_length
               /\ SubSeq(pd_out.out.rows, 1, Len(pd_x.rows)) = pd_x.rows
               /\ pd_out.out.cols = pd_x.cols
               /\ \A k \in (Len(pd_x.rows) + 1)..pd_length :
                     /\ DOMAIN pd_out.out.rows[k] = 1..pd_x.cols
                     /\ \A c \in 1..pd_x.cols : pd_out.out.rows[k][c] = pd_pad

\* C12 witness, 1-D: a non-empty array was padded by at least one entry
\* with a fill value that differs from its entries.
C12_Witness ==
    /\ pd_pc = "done" /\ pd_dim = 1
    /\ Len(pd_x) >= 1 /\ pd_length > Len(pd_x)
    /\ \A k \in 1..Len(pd_x) : pd_x[k] # pd_pad
    /\ pd_out.raised = "None"

\* C13: once a Voc_Dataset is built from a manifest, none of its records
\* has fewer mel frames than batch_max_frames, and collate_fn is never
\* given an example whose start-frame draw range is empty.
C13_ShortFiltered ==
    (vb_pc = "built" /\ vb_lines # <<>>) =>
       /\ \A k \in 1..Len(voc_meta) :
             voc_meta[k].mel_len >= batch_max_frames(voc_config)
       /\ crop_pc = "done" =>
             \A i \in 1..Len(crop_batch) :
                StartRange(voc_config, crop_batch, i) # {}

RECURSIVE NumSum(_)
\* the sum of the numerators of a row of fractions
NumSum(row) == IF row = <<>> THEN 0 ELSE Head(row).num + NumSum(Tail(row))

\* C14: beta_binomial_prior_distribution(P, M, scaling) returns M rows of
\* P probabilities, and every row sums to 1.
C14_PriorRows ==
    bb_pc = "done" =>
       /\ Len(bb_out) = bb_M
       /\ \A i \in 1..bb_M :
             /\ Len(bb_out[i]) = bb_P
             /\ \A j \in 1..bb_P : bb_out[i][j].den = bb_out[i][1].den
             /\ NumSum(bb_out[i]) = bb_out[i][1].den

\* C15: when get_am_datasets generates the lists, gen_metafile slices at
\* the caller's split_ratio with no badlist, and it completes without error
\* when every artifact file of the manifest exists.
C15_PassThrough ==
    mf_pc = "done" =>
       /\ mf_split_ratio = ga_split_ratio
       /\ ~mf_badlist.given
       /\ mf_exists = 1..mf_n => mf_raised = "None"
       /\ mf_raised = "None" =>
             LET out == gen_metafile("am", mf_shuffled, ga_split_ratio,
                                     mf_exists, NoBadlist)
             IN mf_train = out.train /\ mf_valid = out.valid

\* C16: every tuple AM_Dataset.__getitem__ returns has exactly one of
\* duration and attention prior set, the duration exactly when the
\* dataset's with_duration flag is set, and collate_fn on a batch of that
\* tuple does not fail on a missing duration or prior.
C16_DurationXorPrior ==
    am_get.raised = "None" =>
       LET x == am_get.item
       IN /\ x[3].none # x[6].none
          /\ x[3].none = ~am_with_duration
          /\ x[6].none = am_with_duration
          /\ collate_fn(<<Example(x)>>, 1, am_with_duration, 1).raised
                # "AttributeError"

=============================================================================
